---- MODULE Spec2Model ----
(***************************************************************************)
(* A model of grab-rs: the parser units (File, Stdin, Text), the error     *)
(* accumulator InputError, the Builder / Config registry and its dispatch  *)
(* loop (Config::with_parsers, Config::apply) behind the three entry       *)
(* points parse_str, parse_os_str and parse_bytes.                         *)
(*                                                                         *)
(* A string is a sequence of one-character strings.  An OS string or a     *)
(* byte sequence is a sequence of units, each either a character (standing *)
(* for its UTF-8 encoding) or BadUnit, a byte that no UTF-8 text holds.    *)
(***************************************************************************)
EXTENDS Integers, Sequences, FiniteSets, TLC

\* ------------------------------------------------------------------ bounds

\* Longest input drawn from the alphabet (longer fixed inputs: ExtraInputs).
MaxLen == 2

\* Most access calls in one run, and the longest buffer handed to read.
MaxAccess == 2

MaxBuf == 2

\* ------------------------------------------------- Option, Result, strings

None == [tag |-> "None"]

Some(x) == [tag |-> "Some", val |-> x]

is_some(o) == o.tag = "Some"

unwrap_or(o, d) == IF o.tag = "Some" THEN o.val ELSE d

Ok(x) == [tag |-> "Ok", val |-> x]

Err(e) == [tag |-> "Err", err |-> e]

\* The outcome of a call that aborts the process (assert!, expect).
Panic == [tag |-> "Panic"]

Alphabet == {"@", "-", "a"}

\* A byte that makes a sequence invalid UTF-8 wherever it stands (0xFF).
BadUnit == "\\xFF"

RawAlphabet == Alphabet \cup {BadUnit}

SeqsUpTo(S, n) == UNION {[1..k -> S] : k \in 0..n}

FileUri == <<"f", "i", "l", "e", ":", "/", "/">>

\* Inputs longer than MaxLen that the custom file matcher of the tests needs.
ExtraInputs == {FileUri, FileUri \o <<"a">>}

StrInputs == SeqsUpTo(Alphabet, MaxLen) \cup ExtraInputs

RawInputs == SeqsUpTo(RawAlphabet, MaxLen) \cup ExtraInputs

starts_with(s, t) == Len(t) <= Len(s) /\ SubSeq(s, 1, Len(t)) = t

strip_prefix(s, t) == SubSeq(s, Len(t) + 1, Len(s))

\* OsStr::to_str / std::str::from_utf8: the same characters when every unit
\* is valid UTF-8, nothing otherwise.
to_str(raw) == IF \E i \in 1..Len(raw) : raw[i] = BadUnit THEN None ELSE Some(raw)

Reverse(s) == [i \in 1..Len(s) |-> s[Len(s) + 1 - i]]

\* PathBuf::from(&str) and String::from(&str) keep the characters as given.
PathBuf_from(s) == s

String_from(s) == s

\* ----------------------------------------------------- error/input.rs

TEXT == 1

STDIN == 2

FILE == 4

REQUIRES_UTF8 == 65536

RECURSIVE BitOr(_, _)
BitOr(a, b) ==
    IF a = 0 THEN b
    ELSE IF b = 0 THEN a
    ELSE (IF a % 2 = 1 \/ b % 2 = 1 THEN 1 ELSE 0) + 2 * BitOr(a \div 2, b \div 2)

RECURSIVE BitAnd(_, _)
BitAnd(a, b) ==
    IF a = 0 \/ b = 0 THEN 0
    ELSE (IF a % 2 = 1 /\ b % 2 = 1 THEN 1 ELSE 0) + 2 * BitAnd(a \div 2, b \div 2)

ALL_KINDS == <<TEXT, STDIN, FILE, REQUIRES_UTF8>>

InputError_new(kind) == [flags |-> kind]

\* EKind::toggle in place of EKind::insert
insert_toggle(self, kind) == [flags |-> BitOr(self.flags, kind) - BitAnd(self.flags, kind)]

\* InputError::insert: self.flags.insert(kind)
insert(self, kind) == [flags |-> BitOr(self.flags, kind)]

extend_replace(self, other) == [flags |-> other.flags]

extend(self, other) == insert(self, other.flags)

contains(self, kind) == BitAnd(self.flags, kind) = kind

count(self) == Cardinality({i \in 1..Len(ALL_KINDS) : contains(self, ALL_KINDS[i])})

\* The values of EKind: the unions of its four flags, EKind::empty() included.
EKind_values == {TEXT * t + STDIN * s + FILE * f + REQUIRES_UTF8 * u : t, s, f, u \in {0, 1}}

\* The names bitflags gives the flags, in the order of their declaration.
EKind_names == <<"TEXT", "STDIN", "FILE", "REQUIRES_UTF8">>

\* impl fmt::Debug for EKind (bitflags): the names of the set flags in
\* declaration order joined by " | ", "(empty)" when none is set.
RECURSIVE EKind_debug_from(_, _, _)
EKind_debug_from(flags, i, first) ==
    IF i > Len(ALL_KINDS)
    THEN (IF first THEN "(empty)" ELSE "")
    ELSE IF BitAnd(flags, ALL_KINDS[i]) = ALL_KINDS[i]
         THEN (IF first THEN "" ELSE " | ") \o EKind_names[i] \o EKind_debug_from(flags, i + 1, FALSE)
         ELSE EKind_debug_from(flags, i + 1, first)

EKind_debug(flags) == EKind_debug_from(flags, 1, TRUE)

\* The wording chosen on self.count() >= 1 in place of self.count() > 1
Display_from_one(self) ==
    IF count(self) >= 1
    THEN "Multiple parsers failed [" \o EKind_debug(self.flags) \o "]"
    ELSE "Parser failed [" \o EKind_debug(self.flags) \o "]"

\* impl fmt::Display for InputError
Display(self) ==
    IF count(self) > 1
    THEN "Multiple parsers failed [" \o EKind_debug(self.flags) \o "]"
    ELSE "Parser failed [" \o EKind_debug(self.flags) \o "]"

\* ------------------------------------------------------------ nom results

\* IResult: Ok((rest, out)), or Err of nom::Err: Error(e), Failure(e) or
\* Incomplete(Needed).
IOk(rest, out) == [tag |-> "Ok", rest |-> rest, out |-> out]

IErr(kind) == [tag |-> "Err", kind |-> kind]

IFailure(kind) == [tag |-> "Failure", kind |-> kind]

IIncomplete == [tag |-> "Incomplete"]

\* nom::bytes::complete::tag
tag(t, input) ==
    IF starts_with(input, t) THEN IOk(strip_prefix(input, t), t) ELSE IErr("Tag")

\* nom::bytes::streaming::tag: as the complete one, but an input that ends
\* inside the tag asks for more data instead of failing.
streaming_tag(t, input) ==
    IF starts_with(input, t)
    THEN IOk(strip_prefix(input, t), t)
    ELSE IF starts_with(t, input) THEN IIncomplete ELSE IErr("Tag")

\* nom::combinator::cut: an Error becomes a Failure
cut(r) == IF r.tag = "Err" THEN IFailure(r.kind) ELSE r

\* nom::combinator::all_consuming
all_consuming(r) == IF r.tag = "Ok" /\ r.rest # <<>> THEN IErr("Eof") ELSE r

\* nom::combinator::value
value(v, r) == IF r.tag = "Ok" THEN IOk(r.rest, v) ELSE r

\* IResult::map(|(path, _)| ("", PathBuf::from(path))) of the file matchers
map_path(r) == IF r.tag = "Ok" THEN IOk(<<>>, PathBuf_from(r.rest)) ELSE r

\* IResult::map(|(path, _)| ("", String::from(path))) of the text matchers
map_text(r) == IF r.tag = "Ok" THEN IOk(<<>>, String_from(r.rest)) ELSE r

\* nom::Finish::finish: Ok(res) => Ok(res), Err(Error(e)) | Err(Failure(e))
\* => Err(e), Err(Incomplete(_)) => panic!
finish(r) ==
    CASE r.tag = "Ok" -> Ok(<<r.rest, r.out>>)
      [] r.tag \in {"Err", "Failure"} -> Err(r.kind)
      [] r.tag = "Incomplete" -> Panic

\* ------------------------------------------------------------ parser units

\* A unit (File, Stdin or Text): marker: Option<String>, parser: Option<fn>,
\* weight: Option<u8>.  A caller-supplied function is named by its symbol.
Unit(m, p, w) == [marker |-> m, parser |-> p, weight |-> w]

\* File::new / Stdin::new / Text::new: Self::default(), every field None.
Unit_new == Unit(None, None, None)

\* The resolved source, InputType.
InputType_Stdin == [tag |-> "Stdin"]

InputType_File(path) == [tag |-> "File", path |-> path]

InputType_UTF8(s) == [tag |-> "UTF8", val |-> s]

File_DEFAULT_WEIGHT == 130

Stdin_DEFAULT_WEIGHT == 140

Text_DEFAULT_WEIGHT == 255

File_DEFAULT_MARKER == <<"@">>

Stdin_DEFAULT_MARKER == <<"-">>

Text_DEFAULT_MARKER == <<>>

\* ---- parsers/stdin.rs

stdin_prefix_only(input, marker) == value("()", tag(marker, input))

default_stdin_parser(input, marker) == value("()", all_consuming(tag(marker, input)))

\* tests::test_custom_parser of stdin.rs: the marker as a prefix, the rest ignored.
stdin_test_custom_parser(input, marker) == value("()", tag(marker, input))

Stdin_get_weight(self) == unwrap_or(self.weight, Stdin_DEFAULT_WEIGHT)

Stdin_get_marker(self) == unwrap_or(self.marker, Stdin_DEFAULT_MARKER)

\* self.parser.map(|p| p(input, marker)).unwrap_or_else(|| DEFAULT_PARSER(input, marker))
\* p(input, marker) for the function p a caller handed to Stdin::parser:
\* the tests' function, or one written with the re-exported nom's streaming
\* tag or cut.
stdin_supplied(p, input, marker) ==
    CASE p = "test_custom_parser" -> stdin_test_custom_parser(input, marker)
      [] p = "streaming_tag" -> value("()", streaming_tag(marker, input))
      [] p = "cut_tag" -> value("()", cut(tag(marker, input)))

Stdin_run(parser, input, marker) ==
    IF is_some(parser)
    THEN stdin_supplied(parser.val, input, marker)
    ELSE default_stdin_parser(input, marker)

\* .finish()?; Ok(()): ? returns the Err, a panic in finish unwinds
Stdin_finished(r) == IF r.tag = "Ok" THEN Ok("()") ELSE r

Stdin_parse(self, input) ==
    Stdin_finished(finish(Stdin_run(self.parser, input, Stdin_get_marker(self))))

Stdin_new_error(self, p_error) == InputError_new(STDIN)

\* .map(|_| InputType::Stdin).map_err(|e| self.new_error(e))
Stdin_mapped(self, r) ==
    CASE r.tag = "Ok" -> Ok(InputType_Stdin)
      [] r.tag = "Err" -> Err(Stdin_new_error(self, r.err))
      [] r.tag = "Panic" -> Panic

Stdin_parse_str(self, s) == Stdin_mapped(self, Stdin_parse(self, s))

\* ---- parsers/file.rs

file_keep_marker(input, marker) ==
    IF tag(marker, input).tag = "Ok" THEN IOk(<<>>, PathBuf_from(input)) ELSE tag(marker, input)

default_file_parser(input, marker) == map_path(tag(marker, input))

\* tests::test_custom_parser of file.rs: a fixed "file://" prefix, the marker unused.
file_test_custom_parser(input, marker) == map_path(tag(FileUri, input))

\* The default weight of the file unit set behind the stdin unit's
File_get_weight_behind_stdin(self) == unwrap_or(self.weight, Stdin_DEFAULT_WEIGHT + 10)

File_get_weight(self) == unwrap_or(self.weight, File_DEFAULT_WEIGHT)

File_get_marker(self) == unwrap_or(self.marker, File_DEFAULT_MARKER)

FilePath_new(path) == [path |-> path]

\* p(input, marker) for the function p a caller handed to File::parser
file_supplied(p, input, marker) ==
    CASE p = "test_custom_parser" -> file_test_custom_parser(input, marker)
      [] p = "streaming_tag" -> map_path(streaming_tag(marker, input))
      [] p = "cut_tag" -> map_path(cut(tag(marker, input)))

File_run(parser, input, marker) ==
    IF is_some(parser)
    THEN file_supplied(parser.val, input, marker)
    ELSE default_file_parser(input, marker)

\* let (_, path) = ... .finish()?; Ok(FilePath::new(path))
File_finished(r) == IF r.tag = "Ok" THEN Ok(FilePath_new(r.val[2])) ELSE r

File_parse(self, input) ==
    File_finished(finish(File_run(self.parser, input, File_get_marker(self))))

File_new_error(self, p_error) == InputError_new(FILE)

\* .map(InputType::File).map_err(|e| self.new_error(e))
File_mapped(self, r) ==
    CASE r.tag = "Ok" -> Ok(InputType_File(r.val))
      [] r.tag = "Err" -> Err(File_new_error(self, r.err))
      [] r.tag = "Panic" -> Panic

File_parse_str(self, s) == File_mapped(self, File_parse(self, s))

\* ---- parsers/text.rs

text_keep_marker(input, marker) ==
    IF marker = <<>> \/ tag(marker, input).tag = "Ok"
    THEN IOk(<<>>, String_from(input))
    ELSE tag(marker, input)

\* The default text matcher with nom's tag on the empty marker guarded away:
\* the empty input is turned down
default_text_parser_nonempty(input, marker) ==
    IF input = <<>>
    THEN IErr("Tag")
    ELSE IF marker = <<>> THEN IOk(<<>>, input) ELSE map_text(tag(marker, input))

default_text_parser(input, marker) ==
    IF marker = <<>>
    THEN IOk(<<>>, input)
    ELSE map_text(tag(marker, input))

\* tests::test_custom_parser of text.rs: rejects the empty input, else the
\* marker as a prefix.
text_test_custom_parser(input, marker) ==
    IF input = <<>>
    THEN IErr("NonEmpty")
    ELSE map_text(tag(marker, input))

Text_get_marker(self) == unwrap_or(self.marker, Text_DEFAULT_MARKER)

Text_get_weight(self) == unwrap_or(self.weight, Text_DEFAULT_WEIGHT)

\* p(input, marker) for the function p a caller handed to Text::parser
text_supplied(p, input, marker) ==
    CASE p = "test_custom_parser" -> text_test_custom_parser(input, marker)
      [] p = "streaming_tag" -> map_text(streaming_tag(marker, input))
      [] p = "cut_tag" -> map_text(cut(tag(marker, input)))

Text_run(parser, input, marker) ==
    IF is_some(parser)
    THEN text_supplied(parser.val, input, marker)
    ELSE default_text_parser(input, marker)

\* let (_, text) = ... .finish()?; Ok(text)
Text_finished(r) == IF r.tag = "Ok" THEN Ok(r.val[2]) ELSE r

Text_parse(self, input) ==
    Text_finished(finish(Text_run(self.parser, input, Text_get_marker(self))))

Text_new_error(self, p_error) == InputError_new(TEXT)

\* .map(InputType::UTF8).map_err(|e| self.new_error(e))
Text_mapped(self, r) ==
    CASE r.tag = "Ok" -> Ok(InputType_UTF8(r.val))
      [] r.tag = "Err" -> Err(Text_new_error(self, r.err))
      [] r.tag = "Panic" -> Panic

Text_parse_str(self, s) == Text_mapped(self, Text_parse(self, s))

\* ---- parsers/mod.rs: dyn WeightedParser, a unit behind its kind

WP(kind, unit) == [kind |-> kind, unit |-> unit]

weight(p) ==
    CASE p.kind = "File" -> File_get_weight(p.unit)
      [] p.kind = "Stdin" -> Stdin_get_weight(p.unit)
      [] p.kind = "Text" -> Text_get_weight(p.unit)

\* Each attempt yields the unit's result and whether its matching function ran.
Attempt(res, called) == [res |-> res, called |-> called]

parse_str(p, input) ==
    CASE p.kind = "File" -> Attempt(File_parse_str(p.unit, input), TRUE)
      [] p.kind = "Stdin" -> Attempt(Stdin_parse_str(p.unit, input), TRUE)
      [] p.kind = "Text" -> Attempt(Text_parse_str(p.unit, input), TRUE)

\* .ok_or(EKind::REQUIRES_UTF8)? / .map_err(|_| EKind::REQUIRES_UTF8)?, then
\* self.parse_str(input): the unit returns the error at once when the
\* conversion failed, else goes on to match the text.
\* The gate taking the empty input for an invalid one
utf8_gate_nonempty(p, converted) ==
    IF is_some(converted) /\ converted.val # <<>>
    THEN parse_str(p, converted.val)
    ELSE Attempt(Err(InputError_new(REQUIRES_UTF8)), FALSE)

utf8_gate(p, converted) ==
    IF is_some(converted)
    THEN parse_str(p, converted.val)
    ELSE Attempt(Err(InputError_new(REQUIRES_UTF8)), FALSE)

\* OsStr::to_string_lossy / String::from_utf8_lossy in place of the gate:
\* every invalid unit becomes U+FFFD and the unit goes on to match.
to_string_lossy(raw) == [i \in 1..Len(raw) |-> IF raw[i] = BadUnit THEN "\\uFFFD" ELSE raw[i]]

parse_os_str_lossy(p, input) == parse_str(p, to_string_lossy(input))

parse_bytes_lossy(p, input) == parse_str(p, to_string_lossy(input))

\* Parser::parse_os_str (default method, no unit overrides it)
parse_os_str(p, input) == utf8_gate(p, to_str(input))

\* Parser::parse_bytes (default method, no unit overrides it)
parse_bytes(p, input) == utf8_gate(p, to_str(input))

\* ------------------------------------------------------------- builder.rs

\* Builder: one optional unit per kind.
Builder(s, f, t) == [stdin |-> s, file |-> f, text |-> t]

\* Builder::new: Self::default(), no slot populated.
Builder_new == Builder(None, None, None)

is_valid_always(b) == TRUE

\* Builder::is_valid
is_valid(b) == is_some(b.text) \/ is_some(b.stdin) \/ is_some(b.file)

with_text(b, t) == [b EXCEPT !.text = Some(t)]

with_stdin(b, u) == [b EXCEPT !.stdin = Some(u)]

\* with_file writing into a fresh builder instead of self
with_file_fresh(b, f) == [Builder_new EXCEPT !.file = Some(f)]

with_file(b, f) == [b EXCEPT !.file = Some(f)]

Config(b) == [inner |-> b]

\* Config::default: Builder::new().with(|b| b.text().stdin().file())
Config_default == Config(with_file(with_stdin(with_text(Builder_new, Unit_new), Unit_new), Unit_new))

\* The sort key of with_parsers, |opt| opt.map(|p| p.weight()): Option<u8>.
sort_key(opt) == IF is_some(opt) THEN Some(weight(opt.val)) ELSE None

\* Ord for Option<u8>: None before every Some, Some by value.
key_le(a, b) ==
    \/ a.tag = "None"
    \/ a.tag = "Some" /\ b.tag = "Some" /\ a.val <= b.val

\* One step of the stable insertion sort: x goes after every element whose
\* key is not greater than its own.
RECURSIVE insert_tail(_, _)
insert_tail(sorted, x) ==
    IF sorted = <<>> \/ key_le(sort_key(sorted[Len(sorted)]), sort_key(x))
    THEN Append(sorted, x)
    ELSE Append(insert_tail(SubSeq(sorted, 1, Len(sorted) - 1), x), sorted[Len(sorted)])

RECURSIVE sort_upto(_, _)
sort_upto(list, n) ==
    IF n = 0 THEN <<>> ELSE insert_tail(sort_upto(list, n - 1), list[n])

sort_by_key_unsorted(list) == list

sort_by_key_descending(list) == Reverse(sort_upto(list, Len(list)))

\* slice::sort_unstable_by_key, as it may order equal keys: last slot first
sort_by_key_unstable(list) == sort_upto(Reverse(list), Len(list))

\* slice::sort_by_key: stable, ascending.
sort_by_key(list) == sort_upto(list, Len(list))

wp_slot(kind, slot) == IF is_some(slot) THEN Some(WP(kind, slot.val)) ELSE None

\* Config::with_parsers: the three slots in the order file, stdin, text,
\* sorted by weight; this is the list handed to the callback.
slot_list(b) == <<wp_slot("File", b.file), wp_slot("Stdin", b.stdin), wp_slot("Text", b.text)>>

with_parsers(self) == sort_by_key(slot_list(self.inner))

\* parsers.iter().filter_map(|o| *o): the present units, in list order.
unwrap_all(present) == [i \in 1..Len(present) |-> present[i].val]

filter_map(list) == unwrap_all(SelectSeq(list, is_some))

\* The closure handed to apply by each entry point.
call_unit(entry, p, input) ==
    CASE entry = "parse_str" -> parse_str(p, input)
      [] entry = "parse_os_str" -> parse_os_str(p, input)
      [] entry = "parse_bytes" -> parse_bytes(p, input)

\* What apply saw of one unit: its kind, whether its matching function ran,
\* and the result the closure returned for it.
Tried(p, a) == [kind |-> p.kind, called |-> a.called, res |-> a.res]

\* The Err arm without its assignment: the error is dropped
accumulate_dropped(error, e) == error

\* The Err arm of apply: prev.extend(e) on an earlier error, else the first.
accumulate(error, e) == IF is_some(error) THEN Some(extend(error.val, e)) ELSE Some(e)

\* Config::apply from the i-th parser on, with the error accumulated so far;
\* tried lists the units attempted, in order.  apply_arm is the match on
\* what the closure returned for the i-th parser.
RECURSIVE apply_from(_, _, _, _, _, _)
\* The Ok arm without its return: the loop goes on over the later units
apply_arm_no_return(parsers, i, error, entry, input, tried, a) ==
    IF a.res.tag = "Ok"
    THEN [result |-> a.res,
          tried |-> apply_from(parsers, i + 1, error, entry, input,
                               Append(tried, Tried(parsers[i], a))).tried]
    ELSE apply_from(parsers, i + 1, accumulate(error, a.res.err), entry, input,
                    Append(tried, Tried(parsers[i], a)))

\* A panic inside the closure unwinds through apply: no arm is reached.
apply_arm(parsers, i, error, entry, input, tried, a) ==
    CASE a.res.tag = "Ok" ->
            [result |-> a.res, tried |-> Append(tried, Tried(parsers[i], a))]
      [] a.res.tag = "Err" ->
            apply_from(parsers, i + 1, accumulate(error, a.res.err), entry, input,
                       Append(tried, Tried(parsers[i], a)))
      [] a.res.tag = "Panic" ->
            [result |-> Panic, tried |-> Append(tried, Tried(parsers[i], a))]

\* error.expect("Config should never have less than one parser, this is a bug")
expect(error) == IF is_some(error) THEN Err(error.val) ELSE Panic

apply_from(parsers, i, error, entry, input, tried) ==
    IF i > Len(parsers)
    THEN [result |-> expect(error), tried |-> tried]
    ELSE apply_arm(parsers, i, error, entry, input, tried, call_unit(entry, parsers[i], input))

apply(parsers, entry, input) == apply_from(parsers, 1, None, entry, input, <<>>)

\* impl Parser for Config: parse_str / parse_os_str / parse_bytes
Config_dispatch(self, entry, input) == apply(filter_map(with_parsers(self)), entry, input)

\* Input::from_input_type
Input_from_input_type(i) == [kind |-> i]

\* Config::parse / Config::parse_os: the result mapped into an Input.
map_input(r) == IF r.tag = "Ok" THEN Ok(Input_from_input_type(r.val)) ELSE r

\* ------------------------------------------------------------------ input.rs

\* A character that takes two bytes in UTF-8, and its bytes.
Wide == "\\u00E9"

utf8_bytes(c) == IF c = Wide THEN <<"\\xC3", "\\xA9">> ELSE <<c>>

\* str::as_bytes / String as AsRef<[u8]>: the UTF-8 encoding of the characters.
RECURSIVE as_bytes(_)
as_bytes(s) == IF s = <<>> THEN <<>> ELSE utf8_bytes(Head(s)) \o as_bytes(Tail(s))

\* What the environment holds: the bytes of every file that can be opened,
\* and the bytes waiting on standard input.
FileBytes == <<"x", "y">>

StdinBytes == <<"z">>

\* std::fs::File::open: a handle at offset 0, or the io::Error.
File_open(path, files) ==
    IF path \in files THEN Ok([path |-> path, offset |-> 0]) ELSE Err("io::Error")

\* Read::stdin, Read::file, Read::text
Read_stdin == [tag |-> "Stdin"]

Read_file(f) == [tag |-> "File", file |-> f]

\* io::Cursor::new(s.to_string()) with the position 0 replaced by the end
Read_text_at_end(s) == [tag |-> "Text", cursor |-> [inner |-> s, pos |-> Len(as_bytes(s))]]

Read_text(s) == [tag |-> "Text", cursor |-> [inner |-> s, pos |-> 0]]

\* Inner::file in place of Inner::file_cxt: the path is not kept
Inner_file_no_context(err, context) == [kind |-> "File", context |-> None, err |-> err]

\* AccessError::file_with_context, Inner::file_cxt, AccessError::kind
Inner_file_cxt(err, context) == [kind |-> "File", context |-> Some(context), err |-> err]

AccessError_file_with_context(err, context) == [inner |-> Inner_file_cxt(err, context)]

AccessError_kind(self) == self.inner.kind

\* .map(Read::file).map_err(|e| AccessError::file_with_context(e, f.path.as_path()))
Read_opened(f, r) ==
    IF r.tag = "Ok"
    THEN Ok(Read_file(r.val))
    ELSE Err(AccessError_file_with_context(r.err, f.path))

\* impl TryFrom<&InputType> for Read
Read_try_from(kind, files) ==
    CASE kind.tag = "Stdin" -> Ok(Read_stdin)
      [] kind.tag = "File" -> Read_opened(kind.path, File_open(kind.path.path, files))
      [] kind.tag = "UTF8" -> Ok(Read_text(kind.val))

\* InputReader::new
InputReader_new(read) == [input |-> read]

\* .map(InputReader::new)
InputReader_mapped(r) == IF r.tag = "Ok" THEN Ok(InputReader_new(r.val)) ELSE r

\* Input::access
Input_access(self, files) == InputReader_mapped(Read_try_from(self.kind, files))

Min(a, b) == IF a < b THEN a ELSE b

\* What one read call hands back: the reader as it is afterwards, the bytes
\* copied into the buffer, and the standard-input bytes taken so far.
ReadOut(reader, bytes, consumed) == [reader |-> reader, bytes |-> bytes, consumed |-> consumed]

\* io::Read for io::Cursor<String>: copy from the position on, advance by the count.
Cursor_read(cursor, len) ==
    [cursor |-> [cursor EXCEPT !.pos = cursor.pos + Min(len, Len(as_bytes(cursor.inner)) - cursor.pos)],
     bytes |-> SubSeq(as_bytes(cursor.inner), cursor.pos + 1,
                      cursor.pos + Min(len, Len(as_bytes(cursor.inner)) - cursor.pos))]

\* io::Read for std::fs::File: from the handle's own offset.
File_read(file, len) ==
    [file |-> [file EXCEPT !.offset = file.offset + Min(len, Len(FileBytes) - file.offset)],
     bytes |-> SubSeq(FileBytes, file.offset + 1,
                      file.offset + Min(len, Len(FileBytes) - file.offset))]

\* io::Read for std::io::Stdin: from the one stream of the process.
Stdin_read(consumed, len) ==
    [consumed |-> consumed + Min(len, Len(StdinBytes) - consumed),
     bytes |-> SubSeq(StdinBytes, consumed + 1, consumed + Min(len, Len(StdinBytes) - consumed))]

Read_read_text(self, r, consumed) == ReadOut([self EXCEPT !.cursor = r.cursor], r.bytes, consumed)

Read_read_file(self, r, consumed) == ReadOut([self EXCEPT !.file = r.file], r.bytes, consumed)

Read_read_stdin(self, r) == ReadOut(self, r.bytes, r.consumed)

\* impl io::Read for Read
Read_read(self, len, consumed) ==
    CASE self.tag = "File" -> Read_read_file(self, File_read(self.file, len), consumed)
      [] self.tag = "Stdin" -> Read_read_stdin(self, Stdin_read(consumed, len))
      [] self.tag = "Text" -> Read_read_text(self, Cursor_read(self.cursor, len), consumed)

InputReader_read_out(self, r) == [r EXCEPT !.reader = [self EXCEPT !.input = r.reader]]

\* impl io::Read for InputReader
InputReader_read(self, len, consumed) ==
    InputReader_read_out(self, Read_read(self.input, len, consumed))

\* ------------------------------------------------------------ state machine

\* The units a caller configures: a custom marker or a custom matching
\* function (the tests' test_custom_parser of the unit's kind), and a weight.
CustomWeights == {0, 200}

Options(S) == {None} \cup {Some(x) : x \in S}

Flavours(markers) ==
    {<<None, None>>, <<None, Some("test_custom_parser")>>} \cup {<<Some(m), None>> : m \in markers}

UnitsWith(markers) ==
    {Unit(f[1], f[2], w) : f \in Flavours(markers), w \in Options(CustomWeights)}

FileUnits == UnitsWith({<<>>, <<"-">>})

StdinUnits == UnitsWith({<<"@", "-">>})

TextUnits == UnitsWith({<<"-">>})

VARIABLES
    builder,    \* Option<Builder>: the builder being configured, until consumed
    config,     \* Option<Config>: the registry, once built
    op,         \* the last operation and its argument
    result,     \* Option<Result>: what the last parse call returned
    tried,      \* the units the last parse call attempted, in order
    panicked,   \* TRUE once an assertion has aborted the process
    errs,       \* three InputErrors a caller holds
    merged,     \* Option: what the last extend calls on them returned
    shown,      \* Option: what the last Display of errs[1] wrote
    fs,         \* the paths that std::fs::File::open can open
    readers,    \* the InputReaders that access calls returned, in order
    accessed,   \* Option<Result>: what the last access call returned
    os          \* the handles obtained from the OS so far, and by how many access calls

dispatchVars == <<builder, config, op, result, tried, panicked>>

errVars == <<errs, merged, shown>>

accessVars == <<fs, readers, accessed, os>>

vars == <<dispatchVars, errVars, accessVars>>

Op(name, arg) == [name |-> name, arg |-> arg]

\* Nothing held yet: no error values, no reader, no handle.
NoErrors ==
    /\ errs = <<>>
    /\ merged = None
    /\ shown = None

NoHandles == [files |-> 0, stdin |-> 0, calls |-> 0, consumed |-> 0]

NoAccess ==
    /\ fs = {}
    /\ readers = <<>>
    /\ accessed = None
    /\ os = NoHandles

Init ==
    /\ builder = None
    /\ config = None
    /\ op = Op("start", None)
    /\ result = None
    /\ tried = <<>>
    /\ panicked = FALSE
    /\ NoErrors
    /\ NoAccess

Building == is_some(builder) /\ ~panicked

Built == is_some(config) /\ ~panicked

\* Builder::new
BuilderNew ==
    /\ builder = None /\ config = None /\ ~panicked
    /\ builder' = Some(Builder_new)
    /\ op' = Op("new", None)
    /\ UNCHANGED <<config, result, tried, panicked>>
    /\ UNCHANGED <<errVars, accessVars>>

\* Builder::text
BuilderText ==
    /\ Building
    /\ builder' = Some(with_text(builder.val, Unit_new))
    /\ op' = Op("text", Unit_new)
    /\ UNCHANGED <<config, result, tried, panicked>>
    /\ UNCHANGED <<errVars, accessVars>>

\* Builder::with_text
BuilderWithText ==
    /\ Building
    /\ \E t \in TextUnits :
        /\ builder' = Some(with_text(builder.val, t))
        /\ op' = Op("with_text", t)
    /\ UNCHANGED <<config, result, tried, panicked>>
    /\ UNCHANGED <<errVars, accessVars>>

\* Builder::stdin
BuilderStdin ==
    /\ Building
    /\ builder' = Some(with_stdin(builder.val, Unit_new))
    /\ op' = Op("stdin", Unit_new)
    /\ UNCHANGED <<config, result, tried, panicked>>
    /\ UNCHANGED <<errVars, accessVars>>

\* Builder::with_stdin
BuilderWithStdin ==
    /\ Building
    /\ \E u \in StdinUnits :
        /\ builder' = Some(with_stdin(builder.val, u))
        /\ op' = Op("with_stdin", u)
    /\ UNCHANGED <<config, result, tried, panicked>>
    /\ UNCHANGED <<errVars, accessVars>>

\* Builder::file
BuilderFile ==
    /\ Building
    /\ builder' = Some(with_file(builder.val, Unit_new))
    /\ op' = Op("file", Unit_new)
    /\ UNCHANGED <<config, result, tried, panicked>>
    /\ UNCHANGED <<errVars, accessVars>>

\* Builder::with_file
BuilderWithFile ==
    /\ Building
    /\ \E f \in FileUnits :
        /\ builder' = Some(with_file(builder.val, f))
        /\ op' = Op("with_file", f)
    /\ UNCHANGED <<config, result, tried, panicked>>
    /\ UNCHANGED <<errVars, accessVars>>

\* Builder::build: consumes the builder; the assertion aborts on an invalid one.
Build ==
    /\ Building
    /\ builder' = None
    /\ op' = Op("build", builder.val)
    /\ IF is_valid(builder.val)
       THEN config' = Some(Config(builder.val)) /\ panicked' = FALSE
       ELSE config' = None /\ panicked' = TRUE
    /\ UNCHANGED <<result, tried>>
    /\ UNCHANGED <<errVars, accessVars>>

\* Builder::try_build: Ok(Config) on a valid builder, else the builder back.
TryBuild ==
    /\ Building
    /\ op' = Op("try_build", builder.val)
    /\ IF is_valid(builder.val)
       THEN config' = Some(Config(builder.val)) /\ builder' = None
       ELSE config' = None /\ builder' = builder
    /\ UNCHANGED <<result, tried, panicked>>
    /\ UNCHANGED <<errVars, accessVars>>

\* Config::default
ConfigDefault ==
    /\ builder = None /\ config = None /\ ~panicked
    /\ config' = Some(Config_default)
    /\ op' = Op("default", None)
    /\ UNCHANGED <<builder, result, tried, panicked>>
    /\ UNCHANGED <<errVars, accessVars>>

\* A dispatch that takes the accepting unit out of its slot (Option::take)
taken(b, kind) ==
    CASE kind = "File" -> [b EXCEPT !.file = None]
      [] kind = "Stdin" -> [b EXCEPT !.stdin = None]
      [] kind = "Text" -> [b EXCEPT !.text = None]

Returned_taking(name, input, wrap, r) ==
    /\ op' = Op(name, input)
    /\ result' = Some(IF wrap THEN map_input(r.result) ELSE r.result)
    /\ tried' = r.tried
    /\ panicked' = (r.result = Panic)
    /\ config' = IF r.result.tag = "Ok"
                 THEN Some(Config(taken(config.val.inner, r.tried[Len(r.tried)].kind)))
                 ELSE config
    /\ UNCHANGED <<builder, errVars, accessVars>>

\* A dispatch that opens the file it resolved to, to see that it is there
Returned_opening(name, input, wrap, r) ==
    /\ op' = Op(name, input)
    /\ result' = Some(IF wrap THEN map_input(r.result) ELSE r.result)
    /\ tried' = r.tried
    /\ panicked' = (r.result = Panic)
    /\ os' = [os EXCEPT !.files = @ + (IF r.result.tag = "Ok" /\ r.result.val.tag = "File"
                                              /\ r.result.val.path.path \in fs
                                       THEN 1 ELSE 0)]
    /\ UNCHANGED <<builder, config, errVars, fs, readers, accessed>>

\* One dispatch through the given entry point of impl Parser for Config.
Returned(name, input, wrap, r) ==
    /\ op' = Op(name, input)
    /\ result' = Some(IF wrap THEN map_input(r.result) ELSE r.result)
    /\ tried' = r.tried
    /\ panicked' = (r.result = Panic)
    /\ UNCHANGED <<builder, config>>
    /\ UNCHANGED <<errVars, accessVars>>

Dispatch(name, entry, input, wrap) ==
    Returned(name, input, wrap, Config_dispatch(config.val, entry, input))

\* The caller lets go of the value the last call returned.
DropResult ==
    /\ Built /\ is_some(result)
    /\ result' = None
    /\ tried' = <<>>
    /\ op' = Op("drop", None)
    /\ UNCHANGED <<builder, config, panicked>>
    /\ UNCHANGED <<errVars, accessVars>>

Idle == Built /\ result = None

\* Config::parse
Parse == Idle /\ \E input \in StrInputs : Dispatch("parse", "parse_str", input, TRUE)

\* Config::parse_os
ParseOs == Idle /\ \E input \in RawInputs : Dispatch("parse_os", "parse_os_str", input, TRUE)

\* Parser::parse_bytes of Config
ParseBytes == Idle /\ \E input \in RawInputs : Dispatch("parse_bytes", "parse_bytes", input, FALSE)

\* FromStr for Input: Self::with_defaults(s), that is Config::default().parse(s),
\* by a caller whose own Config is the default one too
FromStr ==
    /\ Idle /\ config = Some(Config_default)
    /\ \E s \in StrInputs :
        Returned("from_str", s, TRUE, Config_dispatch(Config_default, "parse_str", s))

Next ==
    \/ BuilderNew
    \/ BuilderText
    \/ BuilderWithText
    \/ BuilderStdin
    \/ BuilderWithStdin
    \/ BuilderFile
    \/ BuilderWithFile
    \/ Build
    \/ TryBuild
    \/ ConfigDefault
    \/ Parse
    \/ ParseOs
    \/ ParseBytes
    \/ FromStr
    \/ DropResult

Spec == Init /\ [][Next]_vars

\* ------------------------------------------------------------------ claims

Kinds == {"File", "Stdin", "Text"}

\* The registry the last call ran against, and its slots by kind.
Registry == config.val.inner

SlotOf(k) ==
    CASE k = "File" -> Registry.file
      [] k = "Stdin" -> Registry.stdin
      [] k = "Text" -> Registry.text

SlotIndex(k) == CASE k = "File" -> 1 [] k = "Stdin" -> 2 [] k = "Text" -> 3

Populated == {k \in Kinds : SlotOf(k).tag = "Some"}

UnitOf(k) == SlotOf(k).val

DefaultWeight(k) == CASE k = "File" -> 130 [] k = "Stdin" -> 140 [] k = "Text" -> 255

DefaultMarker(k) == CASE k = "File" -> <<"@">> [] k = "Stdin" -> <<"-">> [] k = "Text" -> <<>>

CategoryOf(k) == CASE k = "File" -> FILE [] k = "Stdin" -> STDIN [] k = "Text" -> TEXT

WeightOf(k) == IF UnitOf(k).weight.tag = "Some" THEN UnitOf(k).weight.val ELSE DefaultWeight(k)

MarkerOf(k) == IF UnitOf(k).marker.tag = "Some" THEN UnitOf(k).marker.val ELSE DefaultMarker(k)

HasDefaultMatcher(k) == UnitOf(k).parser.tag = "None"

\* k1 is tried before k2: lower weight first, equal weights file, stdin, text.
Precedes(k1, k2) ==
    \/ WeightOf(k1) < WeightOf(k2)
    \/ WeightOf(k1) = WeightOf(k2) /\ SlotIndex(k1) < SlotIndex(k2)

\* What unit k alone makes of a text string.
Alone(k, input) == parse_str(WP(k, UnitOf(k)), input).res

Accepting(input) == {k \in Populated : Alone(k, input).tag = "Ok"}

IsPrefix(m, s) == Len(m) <= Len(s) /\ \A i \in 1..Len(m) : s[i] = m[i]

Remainder(m, s) == [i \in 1..(Len(s) - Len(m)) |-> s[i + Len(m)]]

\* The last operation was a parse call of the named entry points that returned.
Called(names) == is_some(config) /\ is_some(result) /\ op.name \in names

TextCall == Called({"parse"})

RawCall == Called({"parse_os", "parse_bytes"})

InvalidUtf8(raw) == \E i \in 1..Len(raw) : raw[i] = BadUnit

\* The source a successful call resolved to (parse and parse_os wrap it in an Input).
Source == IF op.name = "parse_bytes" THEN result.val.val ELSE result.val.val.kind

\* C1: on a text string, Config::parse succeeds iff some populated unit
\* accepts the input, and then returns what the accepting unit that comes
\* first by ascending weight (equal weights: file, stdin, text) produced.
C1_FirstAcceptingUnitWins ==
    TextCall =>
        IF Accepting(op.arg) = {}
        THEN result.val.tag = "Err"
        ELSE /\ result.val.tag = "Ok"
             /\ \E k \in Accepting(op.arg) :
                    /\ \A q \in Accepting(op.arg) \ {k} : Precedes(k, q)
                    /\ Source = Alone(k, op.arg).val

\* A later slot won against an accepting earlier slot because its weight is lower.
C1_Witness ==
    /\ TextCall
    /\ result.val.tag = "Ok"
    /\ Source.tag = "UTF8"
    /\ "File" \in Accepting(op.arg)
    /\ WeightOf("Text") < WeightOf("File")

\* C2: when every populated unit rejects a text string, the ErrorSet holds
\* File iff the file slot is populated, Stdin iff the stdin slot is, Text iff
\* the text slot is, and nothing else: count() is the number of populated
\* slots.
C2_ErrorSetPerRejectingUnit ==
    (TextCall /\ Accepting(op.arg) = {}) =>
        /\ result.val.tag = "Err"
        /\ \A k \in Kinds : contains(result.val.err, CategoryOf(k)) <=> k \in Populated
        /\ ~contains(result.val.err, REQUIRES_UTF8)
        /\ count(result.val.err) = Cardinality(Populated)
        /\ result.val.err.flags = (IF "File" \in Populated THEN 4 ELSE 0)
                                  + (IF "Stdin" \in Populated THEN 2 ELSE 0)
                                  + (IF "Text" \in Populated THEN 1 ELSE 0)

\* dispatch("") against only file (marker @) and stdin (marker -): File and Stdin set.
C2_Witness ==
    /\ TextCall
    /\ op.arg = <<>>
    /\ Registry = Builder(Some(Unit_new), Some(Unit_new), None)
    /\ result.val.tag = "Err"
    /\ contains(result.val.err, FILE)
    /\ contains(result.val.err, STDIN)
    /\ count(result.val.err) = 2

SomeSlot(b) == \E f \in {"file", "stdin", "text"} : b[f].tag = "Some"

\* C3: every Config has a populated slot: build aborts on a builder with none,
\* try_build returns that builder as the error, Config::default populates all
\* three, and so no dispatch runs on an empty registry.
C3_ConfigNeverEmpty ==
    /\ is_some(config) => SomeSlot(config.val.inner)
    /\ op.name = "build" =>
          /\ panicked <=> ~SomeSlot(op.arg)
          /\ IF SomeSlot(op.arg) THEN config = Some(Config(op.arg)) ELSE config = None
    /\ op.name = "try_build" =>
          IF SomeSlot(op.arg)
          THEN config = Some(Config(op.arg))
          ELSE config = None /\ builder = Some(op.arg) /\ ~panicked
    /\ op.name = "default" =>
          \A f \in {"file", "stdin", "text"} : config.val.inner[f].tag = "Some"
    /\ is_some(result) => is_some(config) /\ SomeSlot(config.val.inner) /\ tried # <<>>

\* build was called on a builder with no slot populated, and aborted.
C3_Witness ==
    /\ op.name = "build"
    /\ ~SomeSlot(op.arg)
    /\ panicked
    /\ config = None

\* C4 as claimed: on an OS string or a byte sequence that is not valid UTF-8
\* the call fails with RequiresUtf8 and the loop over the sorted units is not
\* entered, no populated unit being tried.
C4_AsClaimed_NoUnitTried ==
    (RawCall /\ InvalidUtf8(op.arg)) =>
        /\ result.val = Err(InputError_new(REQUIRES_UTF8))
        /\ tried = <<>>

\* tried holds exactly the populated units, each once, in dispatch order.
TriedAllInOrder ==
    /\ Len(tried) = Cardinality(Populated)
    /\ \A i \in 1..Len(tried) : tried[i].kind \in Populated
    /\ \A i, j \in 1..Len(tried) : i < j => Precedes(tried[i].kind, tried[j].kind)

\* C4 (amended): on an OS string or a byte sequence that is not valid UTF-8
\* the call fails with RequiresUtf8 and no unit's matching function runs, but
\* the UTF-8 gate sits inside each unit's parse_os_str / parse_bytes: the loop
\* is entered, every populated unit is tried once in sorted order and each
\* rejects with RequiresUtf8 at its gate; the failure is returned after the
\* last unit.
C4_GateInsideEveryUnit ==
    (RawCall /\ InvalidUtf8(op.arg)) =>
        /\ result.val.tag = "Err"
        /\ contains(result.val.err, REQUIRES_UTF8)
        /\ TriedAllInOrder
        /\ \A i \in 1..Len(tried) :
              /\ ~tried[i].called
              /\ tried[i].res = Err(InputError_new(REQUIRES_UTF8))

\* parse_os on invalid UTF-8 against three populated slots: all three were tried.
C4_Witness ==
    /\ RawCall
    /\ op.name = "parse_os"
    /\ InvalidUtf8(op.arg)
    /\ Len(tried) = 3
    /\ result.val.tag = "Err"

\* C5: for every Config and every OS string or byte sequence that is not
\* valid UTF-8 the ErrorSet is exactly {RequiresUtf8}: count() is 1, none of
\* Text, Stdin, File is set however many slots are populated, and no unit's
\* matching function is called.
C5_ExactlyRequiresUtf8 ==
    (RawCall /\ InvalidUtf8(op.arg)) =>
        /\ result.val.tag = "Err"
        /\ result.val.err.flags = 65536
        /\ count(result.val.err) = 1
        /\ contains(result.val.err, REQUIRES_UTF8)
        /\ \A k \in Kinds : ~contains(result.val.err, CategoryOf(k))
        /\ \A i \in 1..Len(tried) : ~tried[i].called

\* A byte sequence that is not valid UTF-8 against two or more populated slots.
C5_Witness ==
    /\ RawCall
    /\ op.name = "parse_bytes"
    /\ InvalidUtf8(op.arg)
    /\ Cardinality(Populated) >= 2
    /\ count(result.val.err) = 1

\* What the default registry makes of a text string.
DefaultExpected(input) ==
    IF input # <<>> /\ input[1] = "@"
    THEN [tag |-> "File", path |-> [path |-> Tail(input)]]
    ELSE IF input = <<"-">>
         THEN [tag |-> "Stdin"]
         ELSE [tag |-> "UTF8", val |-> input]

IsDefaultRegistry ==
    /\ Populated = Kinds
    /\ \A k \in Kinds : /\ HasDefaultMatcher(k)
                        /\ UnitOf(k).marker.tag = "None"
                        /\ UnitOf(k).weight.tag = "None"

\* C6: against the default registry (file @ 130, stdin - 140, text "" 255) a
\* text string beginning with @ yields File with the remainder as path, the
\* string "-" yields Stdin, and every other string yields Text with the whole
\* input as content.
C6_DefaultRegistryResolution ==
    (TextCall /\ IsDefaultRegistry) =>
        /\ weight(WP("File", UnitOf("File"))) = 130
        /\ weight(WP("Stdin", UnitOf("Stdin"))) = 140
        /\ weight(WP("Text", UnitOf("Text"))) = 255
        /\ result.val.tag = "Ok"
        /\ Source = DefaultExpected(op.arg)

\* "-" followed by more characters resolves to Text under Config::default.
C6_Witness ==
    /\ TextCall
    /\ config = Some(Config_default)
    /\ op.arg = <<"-", "a">>
    /\ result.val = Ok([kind |-> [tag |-> "UTF8", val |-> <<"-", "a">>]])

\* The last call returned and handed its text to the matching functions.
Matched == Called({"parse", "parse_os", "parse_bytes"}) /\ ~InvalidUtf8(op.arg)

\* The attempts of the last call at the unit of kind k whose matching function ran.
AttemptsAt(k) == {i \in 1..Len(tried) : tried[i].kind = k /\ tried[i].called}

\* C7: a Stdin unit with the default matching function succeeds iff the whole
\* input equals the configured marker (default "-"); an input with trailing
\* content after the marker, or without the marker, fails with Stdin.
C7_StdinExactMatch ==
    (Matched /\ "Stdin" \in Populated /\ HasDefaultMatcher("Stdin")) =>
        \A i \in AttemptsAt("Stdin") :
            tried[i].res = IF op.arg = MarkerOf("Stdin")
                           THEN Ok([tag |-> "Stdin"])
                           ELSE Err([flags |-> 2])

\* The input begins with the marker, has trailing content, and Stdin rejected it.
C7_Witness ==
    /\ Matched
    /\ "Stdin" \in Populated
    /\ HasDefaultMatcher("Stdin")
    /\ IsPrefix(MarkerOf("Stdin"), op.arg)
    /\ op.arg # MarkerOf("Stdin")
    /\ \E i \in AttemptsAt("Stdin") : tried[i].res = Err([flags |-> 2])

\* C8: a File unit with the default matching function succeeds iff the input
\* begins with the configured marker (default "@"); the path is the input
\* with the marker prefix removed, an empty remainder included; otherwise it
\* fails with File.
C8_FilePrefixMatch ==
    (Matched /\ "File" \in Populated /\ HasDefaultMatcher("File")) =>
        \A i \in AttemptsAt("File") :
            tried[i].res = IF IsPrefix(MarkerOf("File"), op.arg)
                           THEN Ok([tag |-> "File",
                                    path |-> [path |-> Remainder(MarkerOf("File"), op.arg)]])
                           ELSE Err([flags |-> 4])

\* The input is exactly the default marker: File accepts it with an empty path.
C8_Witness ==
    /\ Matched
    /\ "File" \in Populated
    /\ HasDefaultMatcher("File")
    /\ MarkerOf("File") = <<"@">>
    /\ op.arg = <<"@">>
    /\ \E i \in AttemptsAt("File") :
          tried[i].res = Ok([tag |-> "File", path |-> [path |-> <<>>]])

\* C9: a Text unit with the default matching function and an empty marker
\* succeeds on every input and returns it whole; with a non-empty marker it
\* succeeds iff the input begins with the marker and returns the remainder,
\* otherwise it fails with Text.
C9_TextCatchAllOrPrefix ==
    (Matched /\ "Text" \in Populated /\ HasDefaultMatcher("Text")) =>
        \A i \in AttemptsAt("Text") :
            tried[i].res = IF MarkerOf("Text") = <<>>
                           THEN Ok([tag |-> "UTF8", val |-> op.arg])
                           ELSE IF IsPrefix(MarkerOf("Text"), op.arg)
                                THEN Ok([tag |-> "UTF8",
                                         val |-> Remainder(MarkerOf("Text"), op.arg)])
                                ELSE Err([flags |-> 1])

\* A Text unit with a non-empty marker returned the remainder after it.
C9_Witness ==
    /\ Matched
    /\ "Text" \in Populated
    /\ HasDefaultMatcher("Text")
    /\ MarkerOf("Text") = <<"-">>
    /\ op.arg = <<"-", "a">>
    /\ \E i \in AttemptsAt("Text") : tried[i].res = Ok([tag |-> "UTF8", val |-> <<"a">>])

\* ------------------------------------------------ caller-supplied matchers

\* The functions a caller hands to File::parser, Stdin::parser or
\* Text::parser: the tests' own, and two written with the nom the crate
\* re-exports for that purpose.
Matchers == {"test_custom_parser", "streaming_tag", "cut_tag"}

\* Units configured through with: any marker, any matcher, any weight.
SuppliedUnits(markers, weights) ==
    {Unit(m, p, w) : m \in Options(markers), p \in Options(Matchers), w \in Options(weights)}

SuppliedBuilders ==
    {Builder(s, f, t) : s \in Options(SuppliedUnits({<<"@", "-">>}, {0})),
                        f \in Options(SuppliedUnits({<<"-">>}, {})),
                        t \in Options(SuppliedUnits({<<"-">>}, {}))}

\* Every Config that Builder::build makes of them.
SuppliedConfigs == {Config(b) : b \in {x \in SuppliedBuilders : is_valid(x)}}

SuppliedInit ==
    /\ builder = None
    /\ config \in {Some(c) : c \in SuppliedConfigs}
    /\ op = Op("start", None)
    /\ result = None
    /\ tried = <<>>
    /\ panicked = FALSE
    /\ NoErrors
    /\ NoAccess

SuppliedNext ==
    \/ Parse
    \/ ParseOs
    \/ ParseBytes
    \/ DropResult

SpecSupplied == SuppliedInit /\ [][SuppliedNext]_vars

\* The caller-supplied function of the unit of kind k, called with (input, marker).
Supplied(k, input, marker) ==
    CASE k = "File" -> file_supplied(UnitOf(k).parser.val, input, marker)
      [] k = "Stdin" -> stdin_supplied(UnitOf(k).parser.val, input, marker)
      [] k = "Text" -> text_supplied(UnitOf(k).parser.val, input, marker)

SourceOf(k, out) ==
    CASE k = "File" -> [tag |-> "File", path |-> [path |-> out]]
      [] k = "Stdin" -> [tag |-> "Stdin"]
      [] k = "Text" -> [tag |-> "UTF8", val |-> out]

\* C10: a unit with a caller-supplied matching function succeeds iff that
\* function, called with (input, configured marker), succeeds; the default
\* rule no longer applies; a failure of the function is reported as the
\* unit's own category; and the units are still tried in weight order.
\* The code departs from it: a supplied function that returns nom's
\* Err::Incomplete makes the unit's .finish() panic, so the dispatch aborts
\* instead of reporting the category.
C10_SuppliedMatcherDecides ==
    Matched =>
        /\ \A k \in Populated :
              ~HasDefaultMatcher(k) =>
                  \A i \in AttemptsAt(k) :
                      tried[i].res =
                          IF Supplied(k, op.arg, MarkerOf(k)).tag = "Ok"
                          THEN Ok(SourceOf(k, Supplied(k, op.arg, MarkerOf(k)).out))
                          ELSE Err([flags |-> CategoryOf(k)])
        /\ \A i, j \in 1..Len(tried) : i < j => Precedes(tried[i].kind, tried[j].kind)

\* ------------------------------------------------- access and the readers

\* The paths whose files come and go, and the registries in use: the default
\* one and one whose only unit is a Text unit with the marker "-".
Paths == {<<"a">>, <<"-">>}

WideInputs == {<<Wide>>, <<"a", Wide>>}

AccessConfigs ==
    {Config_default, Config(with_text(Builder_new, Unit(Some(<<"-">>), None, None)))}

AccessInit ==
    /\ builder = None
    /\ config \in {Some(c) : c \in AccessConfigs}
    /\ op = Op("start", None)
    /\ result = None
    /\ tried = <<>>
    /\ panicked = FALSE
    /\ NoErrors
    /\ NoAccess

\* Input::with_defaults: Config::default().parse(input)
WithDefaults ==
    /\ Idle
    /\ \E text \in StrInputs \cup WideInputs :
        Returned("with_defaults", text, TRUE, Config_dispatch(Config_default, "parse_str", text))

\* The caller holds an Input: the last call was one that returns Input, and succeeded.
HoldsInput ==
    /\ is_some(result)
    /\ op.name \in {"parse", "parse_os", "with_defaults"}
    /\ result.val.tag = "Ok"

\* The handles the process has obtained once an access call returned r.
acquired(handles, r) ==
    [handles EXCEPT
        !.calls = @ + 1,
        !.files = @ + (IF r.tag = "Ok" /\ r.val.input.tag = "File" THEN 1 ELSE 0),
        !.stdin = @ + (IF r.tag = "Ok" /\ r.val.input.tag = "Stdin" THEN 1 ELSE 0)]

\* A reader as the caller holds it: with the bytes read from it so far and
\* whether a read has returned 0.
Held(reader) == [reader |-> reader, out |-> <<>>, eof |-> FALSE]

\* access taking the Input by value: the caller is left without it
AccessReturned_consuming(r) ==
    /\ accessed' = Some(r)
    /\ readers' = IF r.tag = "Ok" THEN Append(readers, Held(r.val)) ELSE readers
    /\ os' = acquired(os, r)
    /\ result' = None
    /\ UNCHANGED <<builder, config, op, tried, panicked, errVars, fs>>

AccessReturned(r) ==
    /\ accessed' = Some(r)
    /\ readers' = IF r.tag = "Ok" THEN Append(readers, Held(r.val)) ELSE readers
    /\ os' = acquired(os, r)
    /\ UNCHANGED <<dispatchVars, errVars, fs>>

\* Input::access on the Input the caller holds
Access ==
    /\ HoldsInput /\ ~panicked
    /\ os.calls < MaxAccess
    /\ AccessReturned(Input_access(result.val.val, fs))

ReadReturned(i, r) ==
    /\ readers' = [readers EXCEPT ![i] = [reader |-> r.reader,
                                          out |-> @.out \o r.bytes,
                                          eof |-> r.bytes = <<>>]]
    /\ os' = [os EXCEPT !.consumed = r.consumed]
    /\ UNCHANGED <<dispatchVars, errVars, fs, accessed>>

\* io::Read::read on one of the readers, with a buffer of 1..MaxBuf bytes
ReadSome ==
    \E i \in 1..Len(readers), len \in 1..MaxBuf :
        ReadReturned(i, InputReader_read(readers[i].reader, len, os.consumed))

\* The caller lets go of the Input (or the error) and of every reader.
AccessDrop ==
    /\ is_some(result) /\ ~panicked
    /\ result' = None
    /\ tried' = <<>>
    /\ op' = Op("drop", None)
    /\ readers' = <<>>
    /\ accessed' = None
    /\ UNCHANGED <<builder, config, panicked, errVars, fs, os>>

\* The environment creates or removes a file.
FsChange ==
    /\ \E path \in Paths : fs' = IF path \in fs THEN fs \ {path} ELSE fs \cup {path}
    /\ UNCHANGED <<dispatchVars, errVars, readers, accessed, os>>

AccessNext ==
    \/ Parse
    \/ ParseOs
    \/ ParseBytes
    \/ WithDefaults
    \/ Access
    \/ ReadSome
    \/ AccessDrop
    \/ FsChange

SpecAccess == AccessInit /\ [][AccessNext]_vars

\* ---------------------------------------------- error values on their own

\* A caller holding three InputErrors, built from any EKind, inserts kinds
\* into them, merges them and displays the first.
ErrInit ==
    /\ errs \in [1..3 -> {InputError_new(k) : k \in EKind_values}]
    /\ merged = None
    /\ shown = None
    /\ builder = None
    /\ config = None
    /\ op = Op("start", None)
    /\ result = None
    /\ tried = <<>>
    /\ panicked = FALSE
    /\ NoAccess

\* InputError::insert on one of the errors
ErrInsert ==
    /\ \E i \in 1..3, k \in EKind_values :
        /\ errs' = [errs EXCEPT ![i] = insert(errs[i], k)]
        /\ op' = Op("insert", None)
    /\ merged' = None
    /\ shown' = None
    /\ UNCHANGED <<builder, config, result, tried, panicked, accessVars>>

\* InputError::extend on clones of the errors, in both orders and groupings
ErrExtend ==
    /\ merged' = Some([ab |-> extend(errs[1], errs[2]),
                       ba |-> extend(errs[2], errs[1]),
                       ab_c |-> extend(extend(errs[1], errs[2]), errs[3]),
                       a_bc |-> extend(errs[1], extend(errs[2], errs[3])),
                       aa |-> extend(errs[1], errs[1])])
    /\ op' = Op("extend", None)
    /\ UNCHANGED <<errs, shown>>
    /\ UNCHANGED <<builder, config, result, tried, panicked, accessVars>>

\* to_string() of the first error
ErrDisplay ==
    /\ shown' = Some(Display(errs[1]))
    /\ op' = Op("to_string", None)
    /\ UNCHANGED <<errs, merged>>
    /\ UNCHANGED <<builder, config, result, tried, panicked, accessVars>>

ErrNext ==
    \/ ErrInsert
    \/ ErrExtend
    \/ ErrDisplay

SpecError == ErrInit /\ [][ErrNext]_vars

\* The categories set in an error, and the flags of a set of categories.
Categories(e) == {i \in 1..Len(ALL_KINDS) : contains(e, ALL_KINDS[i])}

FlagsOf(S) ==
    (IF 1 \in S THEN TEXT ELSE 0) + (IF 2 \in S THEN STDIN ELSE 0)
        + (IF 3 \in S THEN FILE ELSE 0) + (IF 4 \in S THEN REQUIRES_UTF8 ELSE 0)

\* C11: InputError::extend yields exactly the union of the operands'
\* categories, whichever way round and however grouped; merging an error
\* with itself changes nothing, and count() never drops below an operand's.
C11_ExtendIsUnion ==
    is_some(merged) =>
        /\ merged.val.ab.flags = FlagsOf(Categories(errs[1]) \cup Categories(errs[2]))
        /\ Categories(merged.val.ab) = Categories(errs[1]) \cup Categories(errs[2])
        /\ merged.val.ab = merged.val.ba
        /\ merged.val.ab_c = merged.val.a_bc
        /\ merged.val.aa = errs[1]
        /\ count(merged.val.ab) >= count(errs[1])
        /\ count(merged.val.ab) >= count(errs[2])

\* {File} merged with {Stdin}, in either order, is {File, Stdin}.
C11_Witness ==
    /\ is_some(merged)
    /\ errs[1] = InputError_new(FILE)
    /\ errs[2] = InputError_new(STDIN)
    /\ merged.val.ab = InputError_new(FILE + STDIN)
    /\ merged.val.ba = InputError_new(FILE + STDIN)
    /\ count(merged.val.ab) = 2

\* The text Display writes, worked out from the set of categories.
Listing(S) ==
    IF S = {} THEN "(empty)"
    ELSE (IF 1 \in S THEN "TEXT" ELSE "")
         \o (IF 1 \in S /\ S \cap {2, 3, 4} # {} THEN " | " ELSE "")
         \o (IF 2 \in S THEN "STDIN" ELSE "")
         \o (IF 2 \in S /\ S \cap {3, 4} # {} THEN " | " ELSE "")
         \o (IF 3 \in S THEN "FILE" ELSE "")
         \o (IF 3 \in S /\ 4 \in S THEN " | " ELSE "")
         \o (IF 4 \in S THEN "REQUIRES_UTF8" ELSE "")

\* C12 as claimed: the display reads "parser failed [category]" for one
\* category and "multiple parsers failed [categories]" for more than one.
C12_AsClaimed_LowerCaseWording ==
    is_some(shown) =>
        /\ Cardinality(Categories(errs[1])) = 1
            => shown.val = "parser failed [" \o Listing(Categories(errs[1])) \o "]"
        /\ Cardinality(Categories(errs[1])) > 1
            => shown.val = "multiple parsers failed [" \o Listing(Categories(errs[1])) \o "]"

\* C12: the display reads "Parser failed [category]" when one category is
\* set (or none) and "Multiple parsers failed [categories]" when more than
\* one is set; the wording follows the number of categories only, whichever
\* they are and in whatever order they were inserted.
C12_DisplayBranchesOnCount ==
    is_some(shown) =>
        /\ Cardinality(Categories(errs[1])) <= 1
            => shown.val = "Parser failed [" \o Listing(Categories(errs[1])) \o "]"
        /\ Cardinality(Categories(errs[1])) > 1
            => shown.val = "Multiple parsers failed [" \o Listing(Categories(errs[1])) \o "]"

\* Stdin inserted into {File}, then displayed.
C12_Witness ==
    /\ is_some(shown)
    /\ op.name = "to_string"
    /\ errs[1] = InputError_new(FILE + STDIN)
    /\ shown.val = "Multiple parsers failed [STDIN | FILE]"

\* The source of the Input the caller holds, and the readers it gave.
HeldSource == result.val.val.kind

Prefix(bytes, n) == SubSeq(bytes, 1, n)

\* C13: the bytes read from a reader of a Text source are at all times the
\* content's bytes from the start, in order; a read returns 0 only once all
\* of them were read, so reading to completion gives exactly the content.
\* With the default registry (Input::with_defaults), an input that resolves
\* to Text is read back unchanged.
C13_TextRoundTrip ==
    (HoldsInput /\ HeldSource.tag = "UTF8") =>
        \A i \in 1..Len(readers) :
            /\ readers[i].reader.input.tag = "Text"
            /\ Len(readers[i].out) <= Len(as_bytes(HeldSource.val))
            /\ readers[i].out = Prefix(as_bytes(HeldSource.val), Len(readers[i].out))
            /\ readers[i].eof => readers[i].out = as_bytes(HeldSource.val)
            /\ (readers[i].eof /\ op.name = "with_defaults") => readers[i].out = as_bytes(op.arg)

\* "a" and a two-byte character, resolved by the default registry and read
\* to the end: three bytes, then 0.
C13_Witness ==
    /\ HoldsInput
    /\ op = Op("with_defaults", <<"a", Wide>>)
    /\ HeldSource = InputType_UTF8(<<"a", Wide>>)
    /\ Len(readers) >= 1
    /\ readers[1].eof
    /\ readers[1].out = <<"a", "\\xC3", "\\xA9">>

\* C14: no parse call, through any entry point and whatever it resolves to,
\* obtains a handle: the process holds no file handle and no standard-input
\* handle before the first Input::access, and never more than one per
\* access call.  A File source parses whether or not its path can be opened.
C14_ParseAcquiresNothing ==
    /\ os.files + os.stdin <= os.calls
    /\ os.calls = 0 => (os.files = 0 /\ os.stdin = 0 /\ readers = <<>>)
    /\ (is_some(result) /\ op.name = "with_defaults" /\ IsPrefix(<<"@">>, op.arg)) =>
            result.val = Ok(Input_from_input_type(
                            InputType_File(FilePath_new(Remainder(<<"@">>, op.arg)))))

\* "@a" parsed to a File source while no file "a" exists and a file "-" does,
\* before any access.
C14_Witness ==
    /\ HoldsInput
    /\ op.arg = <<"@", "a">>
    /\ HeldSource = InputType_File(FilePath_new(<<"a">>))
    /\ fs = {<<"-">>}
    /\ os = NoHandles

\* The step is an access call returning.
AccessStep == os'.calls = os.calls + 1

CannotOpen == HeldSource.tag = "File" /\ HeldSource.path.path \notin fs

\* C15: an access call is made on the Input of a parse that succeeded; it
\* fails exactly when the source is a File whose path cannot be opened, and
\* then with an AccessError of kind File holding that path as context; on
\* Stdin and Text it succeeds.  The error is no InputError (it has no
\* flags), and the call leaves the parse result as it was.
C15_AccessFailsOnlyOnOpen ==
    [][AccessStep =>
        /\ HoldsInput
        /\ is_some(accessed')
        /\ (accessed'.val.tag = "Err") <=> CannotOpen
        /\ accessed'.val.tag = "Err" =>
            /\ AccessError_kind(accessed'.val.err) = "File"
            /\ accessed'.val.err.inner.context = Some(HeldSource.path.path)
            /\ "flags" \notin DOMAIN accessed'.val.err
            /\ readers' = readers
        /\ accessed'.val.tag = "Ok" => Len(readers') = Len(readers) + 1
        /\ result' = result
    ]_vars

\* Access of File("a") failed while only "-" could be opened.
C15_Witness ==
    /\ HoldsInput
    /\ HeldSource = InputType_File(FilePath_new(<<"a">>))
    /\ fs = {<<"-">>}
    /\ is_some(accessed)
    /\ accessed.val.tag = "Err"
    /\ accessed.val.err.inner.context = Some(<<"a">>)
    /\ os.calls = 1
    /\ os.files = 0

\* The list the dispatch loop of the current Config walks.
LoopList == filter_map(with_parsers(config.val))

\* C16: the list handed to the dispatch loop holds each populated slot's
\* unit once and no other; weights never decrease along it and units of
\* equal weight stand in the order file, stdin, text.  Every call walks
\* that list from its start: what a call tried is a prefix of it.
C16_LoopListSorted ==
    is_some(config) =>
        LET list == LoopList
        IN  /\ Len(list) = Cardinality(Populated)
            /\ \A k \in Populated : \E i \in 1..Len(list) : list[i] = WP(k, UnitOf(k))
            /\ \A i, j \in 1..Len(list) :
                  i < j =>
                    /\ weight(list[i]) <= weight(list[j])
                    /\ weight(list[i]) = weight(list[j])
                          => SlotIndex(list[i].kind) < SlotIndex(list[j].kind)
            /\ is_some(result) =>
                  /\ Len(tried) <= Len(list)
                  /\ \A i \in 1..Len(tried) : tried[i].kind = list[i].kind

\* Text at weight 0 before File and Stdin, both at 200: a call that all
\* three rejected tried Text, then File, then Stdin.
C16_Witness ==
    /\ TextCall
    /\ Populated = Kinds
    /\ WeightOf("Text") = 0
    /\ WeightOf("File") = 200
    /\ WeightOf("Stdin") = 200
    /\ Len(tried) = 3
    /\ tried[1].kind = "Text"
    /\ tried[2].kind = "File"
    /\ tried[3].kind = "Stdin"

\* What the call handed back, before Config::parse wraps it in an Input.
Returns(r) ==
    IF op.name = "parse_bytes" THEN result.val = r ELSE result.val = map_input(r)

\* C17: one dispatch attempts the units one after another in sorted order,
\* none twice; a unit is attempted only if every populated unit before it
\* in sorted order was attempted, earlier, and failed; a success is the last
\* attempt and is what the dispatch returns, no later unit being attempted,
\* and a failure is returned only after every populated unit was attempted
\* and failed.
C17_OneAtATimeShortCircuit ==
    (is_some(config) /\ is_some(result) /\ ~panicked) =>
        /\ Len(tried) >= 1
        /\ \A i, j \in 1..Len(tried) : i < j => Precedes(tried[i].kind, tried[j].kind)
        /\ \A i, j \in 1..Len(tried) : i # j => tried[i].kind # tried[j].kind
        /\ \A j \in 1..Len(tried) : tried[j].kind \in Populated
        /\ \A j \in 1..Len(tried) : \A k \in Populated :
              (k # tried[j].kind /\ Precedes(k, tried[j].kind)) =>
                  \E i \in 1..(j - 1) : tried[i].kind = k /\ tried[i].res.tag = "Err"
        /\ \A i \in 1..(Len(tried) - 1) : tried[i].res.tag = "Err"
        /\ result.val.tag = "Ok" => Returns(tried[Len(tried)].res)
        /\ result.val.tag = "Err" =>
              /\ tried[Len(tried)].res.tag = "Err"
              /\ Len(tried) = Cardinality(Populated)

\* Three units, the first rejected, the second accepted, the third was
\* never attempted.
C17_Witness ==
    /\ TextCall
    /\ Populated = Kinds
    /\ Len(tried) = 2
    /\ tried[1].res.tag = "Err"
    /\ tried[2].res.tag = "Ok"
    /\ result.val.tag = "Ok"
    /\ Alone(CHOOSE k \in Kinds : k \notin {tried[1].kind, tried[2].kind}, op.arg).tag = "Ok"

\* The entry point of impl Parser for Config behind the last call, and what
\* the same call on the same input returns from the state as it is now.
EntryOf(name) ==
    CASE name \in {"parse", "from_str"} -> "parse_str"
      [] name = "parse_os" -> "parse_os_str"
      [] name = "parse_bytes" -> "parse_bytes"

Again(c, call) == Config_dispatch(c, EntryOf(call.name), call.arg).result

Wrapped(call, r) == IF call.name = "parse_bytes" THEN r ELSE map_input(r)

\* C18: once built, a Config is never changed by a step: every parse call,
\* successful or failed and through whichever entry point, leaves its slots
\* and their units' markers, matching functions and weights as they were,
\* and the call made again on the same input returns what it just returned.
C18_DispatchLeavesRegistry ==
    [][is_some(config) =>
        /\ config' = config
        /\ is_some(result') => result'.val = Wrapped(op', Again(config'.val, op'))
    ]_vars

\* A failed parse_os on a registry with a custom file marker, a custom
\* stdin matcher and a custom text weight, all still in place.
C18_Witness ==
    /\ RawCall
    /\ op.name = "parse_os"
    /\ result.val.tag = "Err"
    /\ Populated = Kinds
    /\ UnitOf("File").marker = Some(<<"-">>)
    /\ UnitOf("Stdin").parser = Some("test_custom_parser")
    /\ UnitOf("Text").weight = Some(0)

\* C19: on an OS string or a byte sequence that is valid UTF-8, parse_os and
\* parse_bytes return what dispatch from the text string of the same
\* characters returns: the same source, or the same error.
C19_EntryPointsAgree ==
    (RawCall /\ ~InvalidUtf8(op.arg)) =>
        result.val = Wrapped(op, Config_dispatch(config.val, "parse_str", to_str(op.arg).val).result)

\* parse_bytes of the valid bytes "-" resolved to Stdin, as parse does.
C19_Witness ==
    /\ RawCall
    /\ op = Op("parse_bytes", <<"-">>)
    /\ result.val = Ok(InputType_Stdin)
    /\ Populated = Kinds

\* C20: no parse call, through any entry point and on any Config that
\* build, try_build or Config::default returned, ends in the abort of
\* apply's expect: a call that no unit accepted returns an error of at least
\* one category.  The only abort there is is build's on an empty builder.
C20_ExpectUnreachable ==
    /\ is_some(result) =>
          /\ result.val # Panic
          /\ result.val.tag \in {"Ok", "Err"}
          /\ result.val.tag = "Err" => count(result.val.err) >= 1
    /\ panicked => (op.name = "build" /\ ~is_valid(op.arg))
    /\ is_some(config) => Populated # {}

\* A registry of one unit, from try_build, whose only unit rejected the input.
C20_Witness ==
    /\ TextCall
    /\ Cardinality(Populated) = 1
    /\ Len(tried) = 1
    /\ result.val.tag = "Err"
    /\ count(result.val.err) = 1

\* The text slot holds a unit with the empty marker and the default matcher.
CatchAllText ==
    /\ "Text" \in Populated
    /\ MarkerOf("Text") = <<>>
    /\ HasDefaultMatcher("Text")

\* C21: with a Text unit of the empty marker and the default matching
\* function in the text slot, Config::parse returns no error on any text
\* string, whatever the weights and the other slots; Input::from_str, which
\* is Input::with_defaults, succeeds on every string.
C21_CatchAllTextNeverFails ==
    /\ (TextCall /\ CatchAllText) => result.val.tag = "Ok"
    /\ (is_some(result) /\ op.name = "from_str") => result.val.tag = "Ok"

\* The catch-all Text unit moved to weight 0 in front of a custom File unit
\* and a Stdin unit: it took the input "-" itself.
C21_Witness ==
    /\ TextCall
    /\ CatchAllText
    /\ Populated = Kinds
    /\ WeightOf("Text") = 0
    /\ op.arg = <<"-">>
    /\ result.val = Ok(Input_from_input_type(InputType_UTF8(<<"-">>)))

\* k is shadowed: a unit tried before it accepts every input that k accepts.
Shadowed(k) ==
    \E k1 \in Populated \ {k} :
        /\ Precedes(k1, k)
        /\ \A s \in StrInputs : Alone(k, s).tag = "Ok" => Alone(k1, s).tag = "Ok"

\* The registry of the Stdin documentation: the default File unit and a
\* Stdin unit with the marker "@-", both at their default weights.
CurlStyleRegistry ==
    /\ {"File", "Stdin"} \subseteq Populated
    /\ UnitOf("File") = Unit_new
    /\ UnitOf("Stdin") = Unit(Some(<<"@", "-">>), None, None)

\* No populated unit is tried before the File unit.
FileFirst == \A k \in Populated \ {"File"} : Precedes("File", k)

\* The unit whose result a successful call returned.
Winner == tried[Len(tried)].kind

\* C22: no call resolves through a shadowed unit.  With the default File
\* unit (marker "@", weight 130) and a Stdin unit with the marker "@-" at
\* its default weight 140, the Stdin unit is shadowed: no input resolves to
\* Stdin, whatever the text slot holds, and "@-" resolves to File with the
\* path "-" (the File unit being the first one tried).
C22_ShadowedUnitNeverWins ==
    (TextCall /\ result.val.tag = "Ok") =>
        /\ ~Shadowed(Winner)
        /\ CurlStyleRegistry =>
              /\ Shadowed("Stdin")
              /\ Source # InputType_Stdin
              /\ (FileFirst /\ op.arg = <<"@", "-">>)
                    => Source = InputType_File(FilePath_new(<<"-">>))

\* "@-" parsed against the default File unit and the Stdin unit of marker
\* "@-": File with the path "-".
C22_Witness ==
    /\ TextCall
    /\ CurlStyleRegistry
    /\ op.arg = <<"@", "-">>
    /\ result.val = Ok(Input_from_input_type(InputType_File(FilePath_new(<<"-">>))))
    /\ Alone("Stdin", op.arg).tag = "Ok"

\* The slot a Builder operation writes, by the operation's name.
SlotWritten(name) ==
    CASE name \in {"text", "with_text"} -> "text"
      [] name \in {"stdin", "with_stdin"} -> "stdin"
      [] name \in {"file", "with_file"} -> "file"

BuilderOps == {"text", "with_text", "stdin", "with_stdin", "file", "with_file"}

\* The step is one of the six slot operations of the Builder.
SlotStep == is_some(builder) /\ is_some(builder') /\ op' # op /\ op'.name \in BuilderOps

\* C23: text, with_text, stdin, with_stdin, file and with_file each put the
\* given unit into their own slot, over whatever was there, and leave the
\* other two slots as they were; no step of a builder empties a slot, so a
\* valid builder stays valid; try_build on an invalid builder hands the
\* builder back as it was and gives no Config.
C23_BuilderFrame ==
    [][/\ SlotStep =>
            /\ builder'.val[SlotWritten(op'.name)] = Some(op'.arg)
            /\ \A slot \in {"text", "stdin", "file"} \ {SlotWritten(op'.name)} :
                  builder'.val[slot] = builder.val[slot]
       /\ (is_some(builder) /\ is_some(builder')) =>
            /\ \A slot \in {"text", "stdin", "file"} :
                  is_some(builder.val[slot]) => is_some(builder'.val[slot])
            /\ is_valid(builder.val) => is_valid(builder'.val)
       /\ (is_some(builder) /\ op'.name = "try_build" /\ ~is_valid(builder.val)) =>
            /\ builder' = builder
            /\ config' = None
            /\ ~panicked'
    ]_vars

\* A custom file unit written over the default one, the stdin and text slots
\* as they were.
C23_Witness ==
    /\ is_some(builder)
    /\ op.name = "with_file"
    /\ op.arg = Unit(Some(<<"-">>), None, Some(200))
    /\ builder.val.file = Some(op.arg)
    /\ builder.val.stdin = Some(Unit_new)
    /\ builder.val.text = Some(Unit(None, Some("test_custom_parser"), Some(0)))

\* The step is a read on one of the readers: only that reader changed.
ReadStepOn(i) ==
    /\ i \in 1..Len(readers)
    /\ Len(readers') = Len(readers)
    /\ readers'[i] # readers[i]

\* C24: Input::access leaves the Input as it was, so it can be called again;
\* on a Text source every call returns a new reader at the start of the
\* content and leaves the readers already handed out as they were; a read
\* on one reader moves no other reader; and an access after a failed one is
\* decided by the file system as it is then.
C24_AccessDoesNotConsume ==
    [][/\ AccessStep =>
            /\ result' = result
            /\ op' = op
            /\ HoldsInput'
            /\ \A i \in 1..Len(readers) : readers'[i] = readers[i]
            /\ HeldSource.tag = "UTF8" =>
                  /\ Len(readers') = Len(readers) + 1
                  /\ readers'[Len(readers')] = Held(InputReader_new(Read_text(HeldSource.val)))
                  /\ readers'[Len(readers')].reader.input.cursor.pos = 0
            /\ (is_some(accessed) /\ accessed.val.tag = "Err") =>
                  ((accessed'.val.tag = "Ok") <=> ~CannotOpen)
       /\ \A i \in 1..Len(readers) :
            ReadStepOn(i) =>
                /\ result' = result
                /\ \A j \in 1..Len(readers) : j # i => readers'[j] = readers[j]
    ]_vars

\* Two readers from one Text Input: the first read to the end, the second
\* still at the start.
C24_Witness ==
    /\ HoldsInput
    /\ HeldSource = InputType_UTF8(<<"a", "a">>)
    /\ Len(readers) = 2
    /\ readers[1].eof
    /\ readers[1].out = <<"a", "a">>
    /\ readers[2] = Held(InputReader_new(Read_text(<<"a", "a">>)))
    /\ os.calls = 2

====
